---- MODULE Spec2Model ----
(***************************************************************************)
(* The left panel of the Forms Engine: the prompt/chat state machine       *)
(* around the two gateway calls (/api/prompt and /api/edit-json), in its   *)
(* three variants:                                                         *)
(*   "old" - src/client/src/components/left-panel.tsx (generate only)      *)
(*   "mid" - src/unnamed/part_000 lines 501-1003 (embedded edit chat)      *)
(*   "uni" - src/unnamed/part_000 lines 1-500 (unified chat transcript)    *)
(* One behaviour runs one variant; Init chooses it.                        *)
(***************************************************************************)
EXTENDS Integers, Sequences, FiniteSets, TLC

VARIABLES
    variant,          \* which LeftPanel component is mounted
    prompt,           \* useState prompt
    chatInput,        \* useState chatInput (mid)
    chatHistory,      \* useState chatHistory (mid, uni)
    isGenerating,     \* useState isGenerating: the busy flag
    status,           \* useState statusText / statusColor
    formConfig,       \* the committed configuration of the shared form context
    generatedConfig,  \* useState generatedConfig (mid)
    editedConfig,     \* useState editedConfig (mid): the working configuration
    showEditor,       \* useState showEditor (mid)
    pending,          \* gateway calls awaited by a suspended handler
    nCalls,           \* number of gateway calls issued so far
    last,             \* what the last event did: handler, argument, call, toast
    mounted,          \* the component is mounted and its startup effect has run
    rootClasses,      \* document.documentElement.classList
    fontPrimary,      \* the --font-primary property of document.documentElement.style
    localStorage,     \* the "theme-preset" entry of localStorage
    fx,               \* what the last event did outside the component's state
    callCap           \* how many gateway calls the behaviour may issue

vars == <<variant, prompt, chatInput, chatHistory, isGenerating, status,
          formConfig, generatedConfig, editedConfig, showEditor, pending,
          nCalls, last, mounted, rootClasses, fontPrimary, localStorage, fx,
          callCap>>

\* The document, the persisted theme and the call budget.
docVars == <<mounted, rootClasses, fontPrimary, localStorage, callCap>>

----------------------------------------------------------------------------
(* Bounds *)

\* The number of gateway calls one behaviour issues: under Spec and FairSpec,
\* under LongSpec, and under UISpec.
MaxCalls == 2

MaxLongCalls == 3

MaxUiCalls == 2

----------------------------------------------------------------------------
(* Values *)

Variants == {"old", "mid", "uni"}

\* A text is a sequence of characters; " " stands for any whitespace.  The
\* texts typed: empty, whitespace only, plain, and padded with whitespace.
Texts == {<<>>, <<" ">>, <<"x">>, <<" ", "x", " ">>}

\* FormConfig documents are opaque; Absent is null / undefined (falsy).
Configs == {"c1", "c2"}

Absent == "absent"

RECURSIVE TrimStart(_)
TrimStart(t) ==
    IF t = <<>> THEN <<>>
    ELSE IF Head(t) = " " THEN TrimStart(Tail(t)) ELSE t

RECURSIVE TrimEnd(_)
TrimEnd(t) ==
    IF t = <<>> THEN <<>>
    ELSE IF t[Len(t)] = " " THEN TrimEnd(SubSeq(t, 1, Len(t) - 1)) ELSE t

\* String.prototype.trim
Trim(t) == TrimEnd(TrimStart(t))

\* Faulty variant: the test for an empty text without the trim.
BlankNoTrim(t) == t = <<>>

\* !text.trim()
Blank(t) == Trim(t) = <<>>

\* ChatMessage; a missing isGenerating is FALSE, a missing jsonData is Absent.
Msg(role, content, gen, json) ==
    [role |-> role, content |-> content, isGenerating |-> gen, jsonData |-> json]

WelcomeMsg ==
    Msg("system", <<"Welcome to Forms Engine! Enter a prompt to generate a form.">>,
        FALSE, Absent)

UserMsg(t) == Msg("user", t, FALSE, Absent)

\* Faulty variant: the temporary message is not marked as generating.
TempAssistantMsgUnmarked == Msg("assistant", <<"Generating...">>, FALSE, Absent)

TempAssistantMsg == Msg("assistant", <<"Generating...">>, TRUE, Absent)

Toast(title, description, variantName) ==
    [title |-> title, description |-> description, variant |-> variantName]

NoToast == [title |-> "none"]

StatusReady == [text |-> "Ready", color |-> "bg-green-500"]

StatusGenerating == [text |-> "Generating form...", color |-> "bg-yellow-500"]

StatusSuccess == [text |-> "Form generated successfully", color |-> "bg-green-500"]

StatusFailed == [text |-> "Form generation failed", color |-> "bg-red-500"]

\* What a rejected apiRequest throws: an Error with a message, or another value.
ErrorObj(m) == [isError |-> TRUE, message |-> m]

NonError == [isError |-> FALSE]

Thrown == {ErrorObj(<<"500: Internal Server Error">>), NonError}

InvalidResponse == ErrorObj(<<"Invalid response from server">>)

\* A resolved apiRequest: the parsed body, whose config may be missing.
ResponseBodies == {[config |-> c] : c \in Configs \cup {Absent}}

NoReq == [handler |-> "none"]

NoRes == [kind |-> "none"]

\* The record of an event: the handler run, its text argument, the call it
\* issued or whose completion it handled, the response, and the toast raised.
Event(op, text, req, res, toast) ==
    [op |-> op, text |-> text, req |-> req, res |-> res, toast |-> toast]

CanIssue == nCalls < callCap

\* No effect outside the component's state.
NoFx == [kind |-> "none"]

\* A key event as its handler leaves it.
KeyFx(key, shiftKey, defaultPrevented) ==
    [kind |-> "key", key |-> key, shiftKey |-> shiftKey,
     defaultPrevented |-> defaultPrevented]

\* An event of the mounted component that touches neither the document nor
\* the persisted theme.
ComponentEvent == mounted /\ UNCHANGED docVars

----------------------------------------------------------------------------
(* Unified chat variant: src/unnamed/part_000 lines 29-500 *)

\* Faulty variant: the placeholder is not filtered out.
RemoveGeneratingNone(h) == h

\* prev.filter(msg => !msg.isGenerating)
RemoveGenerating(h) == SelectSeq(h, LAMBDA m : ~m.isGenerating)

\* Faulty variant: the negation is forgotten.
IsInitialGenerationInverted(cfg) == cfg # Absent

\* const isInitialGeneration = !formConfig
IsInitialGeneration(cfg) == cfg = Absent

\* The apiRequest of handleInitialFormGeneration / handleGenerateForm.
PromptCall(promptText) ==
    [url |-> "/api/prompt", body |-> [prompt |-> promptText]]

\* The apiRequest of handleJsonEdit / handleChatSend.
EditCall(json, instruction) ==
    [url |-> "/api/edit-json",
     body |-> [json |-> json, instruction |-> instruction]]

\* A handler suspended at its await: the call it issued, its text argument,
\* and the state it was started in.
Awaiting(handler, text, call) ==
    [handler |-> handler, text |-> text, call |-> call,
     formConfig0 |-> formConfig, editedConfig0 |-> editedConfig,
     chatHistory0 |-> chatHistory]

\* Faulty variant: a committed configuration is kept instead of being replaced.
SetFormConfigKeepsPrior(config) ==
    formConfig' = IF formConfig = Absent THEN config ELSE formConfig

\* setFormConfig of the shared form context
SetFormConfig(config) == formConfig' = config

\* error instanceof Error ? error.message : fallback
MessageOr(error, fallback) ==
    IF error.isError THEN error.message ELSE fallback

\* The chat message of the catch block of handleSendMessage.
ErrorMsg(error) ==
    Msg("assistant", <<"Error: ">> \o MessageOr(error, <<"Something went wrong">>),
        FALSE, Absent)

\* The toast of the catch block of handleSendMessage.
ErrorToast(error) ==
    Toast("Error", MessageOr(error, <<"Failed to process request">>), "destructive")

\* Faulty variant: the success message does not attach the configuration.
GeneratedMsgNoJson(config) ==
    Msg("assistant", <<"Form generated successfully! Here's the JSON.">>, FALSE, Absent)

\* Faulty variant: the message of a successful edit carries no configuration.
UpdatedMsgNoJson(config) ==
    Msg("assistant", <<"Form updated successfully! Here's the updated JSON.">>, FALSE, Absent)

GeneratedMsg(config) ==
    Msg("assistant", <<"Form generated successfully! Here's the JSON.">>, FALSE, config)

UpdatedMsg(config) ==
    Msg("assistant", <<"Form updated successfully! Here's the updated JSON.">>, FALSE, config)

\* The call handleSendMessage awaits: generate without a committed
\* configuration, edit with one.
SendCall(userText, cfg) ==
    IF IsInitialGeneration(cfg) THEN PromptCall(userText) ELSE EditCall(cfg, userText)

\* The handler handleSendMessage awaits.
SendHandler(cfg) ==
    IF IsInitialGeneration(cfg) THEN "handleInitialFormGeneration" ELSE "handleJsonEdit"

\* handleJsonEdit throws before any call when there is no configuration.
JsonEditThrows(cfg) == SendHandler(cfg) = "handleJsonEdit" /\ cfg = Absent

\* Faulty variant: the catch block also resets the shared form context.
SendCatchResets(op, userText, req, res, error) ==
    /\ chatHistory' = Append(RemoveGenerating(chatHistory), ErrorMsg(error))
    /\ isGenerating' = FALSE
    /\ last' = Event(op, userText, req, res, ErrorToast(error))
    /\ formConfig' = Absent
    /\ UNCHANGED <<status, generatedConfig, editedConfig, showEditor>>

\* catch and finally of handleSendMessage
SendCatch(op, userText, req, res, error) ==
    /\ chatHistory' = Append(RemoveGenerating(chatHistory), ErrorMsg(error))
    /\ isGenerating' = FALSE
    /\ last' = Event(op, userText, req, res, ErrorToast(error))
    /\ UNCHANGED <<formConfig, status, generatedConfig, editedConfig, showEditor>>

\* handleSendMessage up to its await
handleSendMessage(op, userText) ==
    IF Blank(userText)
    THEN /\ last' = Event(op, userText, NoReq, NoRes, NoToast)
         /\ UNCHANGED <<prompt, chatHistory, isGenerating, status, formConfig,
                        pending, nCalls>>
    ELSE LET req == Awaiting(SendHandler(formConfig), userText,
                             SendCall(userText, formConfig))
             hist == chatHistory \o <<UserMsg(userText), TempAssistantMsg>>
         IN  /\ prompt' = <<>>
             /\ IF JsonEditThrows(formConfig)
                THEN /\ chatHistory' =
                            Append(RemoveGenerating(hist),
                                   ErrorMsg(ErrorObj(<<"No form configuration to edit">>)))
                     /\ isGenerating' = FALSE
                     /\ last' = Event(op, userText, NoReq, NoRes,
                                      ErrorToast(ErrorObj(<<"No form configuration to edit">>)))
                     /\ UNCHANGED <<status, pending, nCalls>>
                ELSE /\ chatHistory' = hist
                     /\ isGenerating' = TRUE
                     /\ status' = IF req.handler = "handleInitialFormGeneration"
                                  THEN StatusGenerating ELSE status
                     /\ pending' = Append(pending, req)
                     /\ nCalls' = nCalls + 1
                     /\ last' = Event(op, userText, req, NoRes, NoToast)
             /\ UNCHANGED formConfig

\* Faulty variant: the textarea is not disabled while generating.
InputNeverDisabled == FALSE

\* <Textarea disabled={isGenerating}> of the unified variant
InputDisabled == variant = "uni" /\ isGenerating

\* <Button disabled={isGenerating || !prompt.trim()}>
SendDisabled == isGenerating \/ Blank(prompt)

Keys == {"Enter", "x"}

\* Faulty variant: the Shift modifier is not tested.
SubmitKeyIgnoresShift(key, shiftKey) == key = "Enter"

\* e.key === "Enter" && !e.shiftKey
SubmitKey(key, shiftKey) == key = "Enter" /\ ~shiftKey

\* handleKeyDown: Enter without Shift submits the prompt.
KeyDown(key, shiftKey) ==
    /\ variant = "uni"
    /\ ~InputDisabled
    /\ CanIssue
    /\ ComponentEvent
    /\ IF SubmitKey(key, shiftKey)
       THEN /\ fx' = KeyFx(key, shiftKey, TRUE)
            /\ handleSendMessage("handleKeyDown", prompt)
       ELSE /\ fx' = KeyFx(key, shiftKey, FALSE)
            /\ last' = Event("keydown", prompt, NoReq, NoRes, NoToast)
            /\ UNCHANGED <<prompt, chatHistory, isGenerating, status, formConfig,
                           pending, nCalls>>
    /\ UNCHANGED <<variant, chatInput, generatedConfig, editedConfig, showEditor>>

\* onClick of the Send button
ClickSend ==
    /\ variant = "uni"
    /\ ~SendDisabled
    /\ CanIssue
    /\ ComponentEvent
    /\ fx' = NoFx
    /\ handleSendMessage("handleSendMessage", prompt)
    /\ UNCHANGED <<variant, chatInput, generatedConfig, editedConfig, showEditor>>

\* onChange of the prompt textarea
TypePrompt(t) ==
    /\ ~InputDisabled
    /\ ComponentEvent
    /\ fx' = NoFx
    /\ prompt' = t
    /\ last' = Event("setPrompt", t, NoReq, NoRes, NoToast)
    /\ UNCHANGED <<variant, chatInput, chatHistory, isGenerating, status, formConfig,
                   generatedConfig, editedConfig, showEditor, pending, nCalls>>

\* Faulty variant: a successful generation leaves the status indicator alone.
InitialFormGenerationResolvedKeepsStatus(req, data) ==
    LET res == [kind |-> "resolve", data |-> data]
    IN  IF data.config = Absent
        THEN SendCatch("resolved", req.text, req, res, InvalidResponse)
        ELSE /\ SetFormConfig(data.config)
             /\ status' = status
             /\ chatHistory' = Append(RemoveGenerating(chatHistory),
                                      GeneratedMsg(data.config))
             /\ isGenerating' = FALSE
             /\ last' = Event("resolved", req.text, req, res,
                              Toast("Success", <<"Form configuration generated successfully">>,
                                    "default"))
             /\ UNCHANGED <<generatedConfig, editedConfig, showEditor>>

\* handleInitialFormGeneration after its await resolved with data
InitialFormGenerationResolved(req, data) ==
    LET res == [kind |-> "resolve", data |-> data]
    IN  IF data.config = Absent
        THEN SendCatch("resolved", req.text, req, res, InvalidResponse)
        ELSE /\ SetFormConfig(data.config)
             /\ status' = StatusSuccess
             /\ chatHistory' = Append(RemoveGenerating(chatHistory),
                                      GeneratedMsg(data.config))
             /\ isGenerating' = FALSE
             /\ last' = Event("resolved", req.text, req, res,
                              Toast("Success", <<"Form configuration generated successfully">>,
                                    "default"))
             /\ UNCHANGED <<generatedConfig, editedConfig, showEditor>>

\* handleJsonEdit after its await resolved with res
JsonEditResolved(req, data) ==
    LET res == [kind |-> "resolve", data |-> data]
    IN  IF data.config = Absent
        THEN SendCatch("resolved", req.text, req, res, InvalidResponse)
        ELSE /\ SetFormConfig(data.config)
             /\ chatHistory' = Append(RemoveGenerating(chatHistory),
                                      UpdatedMsg(data.config))
             /\ isGenerating' = FALSE
             /\ last' = Event("resolved", req.text, req, res,
                              Toast("Success", <<"Form configuration updated successfully">>,
                                    "default"))
             /\ UNCHANGED <<status, generatedConfig, editedConfig, showEditor>>

----------------------------------------------------------------------------
(* Old variant: src/client/src/components/left-panel.tsx                   *)
(* Intermediate variant: src/unnamed/part_000 lines 523-1002               *)

\* <Button disabled={isGenerating || !prompt.trim()}> of Generate Form
GenerateDisabled == isGenerating \/ Blank(prompt)

\* handleGenerateForm up to its await (the same code in both variants)
handleGenerateForm ==
    IF Blank(prompt)
    THEN /\ last' = Event("handleGenerateForm", prompt, NoReq, NoRes,
                          Toast("Error", <<"Please enter a prompt">>, "destructive"))
         /\ UNCHANGED <<isGenerating, status, pending, nCalls>>
    ELSE LET req == Awaiting("handleGenerateForm", prompt, PromptCall(prompt))
         IN  /\ isGenerating' = TRUE
             /\ status' = StatusGenerating
             /\ pending' = Append(pending, req)
             /\ nCalls' = nCalls + 1
             /\ last' = Event("handleGenerateForm", prompt, req, NoRes, NoToast)

\* onClick of the Generate Form button
ClickGenerate ==
    /\ variant \in {"old", "mid"}
    /\ ~GenerateDisabled
    /\ CanIssue
    /\ ComponentEvent
    /\ fx' = NoFx
    /\ handleGenerateForm
    /\ UNCHANGED <<variant, prompt, chatInput, chatHistory, formConfig,
                   generatedConfig, editedConfig, showEditor>>

\* The toast of the catch block of handleGenerateForm.
GenerateErrorToast(error) ==
    Toast("Error", MessageOr(error, <<"Failed to generate form">>), "destructive")

\* Faulty variant: no finally block clears the busy flag after a failure.
GenerateCatchStaysBusy(op, req, res, error) ==
    /\ status' = StatusFailed
    /\ last' = Event(op, req.text, req, res, GenerateErrorToast(error))
    /\ UNCHANGED <<isGenerating, chatHistory, formConfig, generatedConfig,
                   editedConfig, showEditor>>

\* catch and finally of handleGenerateForm (the same code in both variants)
GenerateCatch(op, req, res, error) ==
    /\ status' = StatusFailed
    /\ isGenerating' = FALSE
    /\ last' = Event(op, req.text, req, res, GenerateErrorToast(error))
    /\ UNCHANGED <<chatHistory, formConfig, generatedConfig, editedConfig, showEditor>>

GenerateSuccessToast ==
    Toast("Success", <<"Form configuration generated successfully">>, "default")

\* handleGenerateForm of the old variant after its await resolved with data
OldGenerateResolved(req, data) ==
    LET res == [kind |-> "resolve", data |-> data]
    IN  IF data.config # Absent
        THEN /\ SetFormConfig(data.config)
             /\ status' = StatusSuccess
             /\ isGenerating' = FALSE
             /\ last' = Event("resolved", req.text, req, res, GenerateSuccessToast)
             /\ UNCHANGED <<chatHistory, generatedConfig, editedConfig, showEditor>>
        ELSE GenerateCatch("resolved", req, res, InvalidResponse)

InitialJsonMsg ==
    Msg("assistant", <<"Here's your initial JSON. You can now ask me to tweak it.">>,
        FALSE, Absent)

\* handleGenerateForm of the intermediate variant after its await resolved
MidGenerateResolved(req, data) ==
    LET res == [kind |-> "resolve", data |-> data]
    IN  IF data.config # Absent
        THEN /\ generatedConfig' = data.config
             /\ editedConfig' = data.config
             /\ chatHistory' = <<InitialJsonMsg>>
             /\ showEditor' = TRUE
             /\ status' = StatusSuccess
             /\ isGenerating' = FALSE
             /\ last' = Event("resolved", req.text, req, res, GenerateSuccessToast)
             /\ UNCHANGED formConfig
        ELSE GenerateCatch("resolved", req, res, InvalidResponse)

DoneMsg == Msg("assistant", <<"Done! Here's the updated JSON.">>, FALSE, Absent)

\* Faulty variant: the chat edit is refused while a call is outstanding.
handleChatSendWhenIdle(op, userText) ==
    IF editedConfig = Absent \/ Blank(userText) \/ pending # <<>>
    THEN /\ last' = Event(op, userText, NoReq, NoRes, NoToast)
         /\ UNCHANGED <<chatHistory, pending, nCalls>>
    ELSE LET req == Awaiting("handleChatSend", userText,
                             EditCall(editedConfig, userText))
         IN  /\ chatHistory' = Append(chatHistory, UserMsg(userText))
             /\ pending' = Append(pending, req)
             /\ nCalls' = nCalls + 1
             /\ last' = Event(op, userText, req, NoRes, NoToast)

\* handleChatSend up to its await
handleChatSend(op, userText) ==
    IF editedConfig = Absent \/ Blank(userText)
    THEN /\ last' = Event(op, userText, NoReq, NoRes, NoToast)
         /\ UNCHANGED <<chatHistory, pending, nCalls>>
    ELSE LET req == Awaiting("handleChatSend", userText,
                             EditCall(editedConfig, userText))
         IN  /\ chatHistory' = Append(chatHistory, UserMsg(userText))
             /\ pending' = Append(pending, req)
             /\ nCalls' = nCalls + 1
             /\ last' = Event(op, userText, req, NoRes, NoToast)

\* Faulty variant: the reply replaces the transcript.
ChatSendResolvedReplaces(req, data) ==
    /\ editedConfig' = data.config
    /\ chatHistory' = <<DoneMsg>>
    /\ last' = Event("resolved", req.text, req, [kind |-> "resolve", data |-> data],
                     NoToast)
    /\ UNCHANGED <<isGenerating, status, formConfig, generatedConfig, showEditor>>

\* handleChatSend after its await resolved with res: no check of res.config
ChatSendResolved(req, data) ==
    /\ editedConfig' = data.config
    /\ chatHistory' = Append(chatHistory, DoneMsg)
    /\ last' = Event("resolved", req.text, req, [kind |-> "resolve", data |-> data],
                     NoToast)
    /\ UNCHANGED <<isGenerating, status, formConfig, generatedConfig, showEditor>>

\* catch of handleChatSend
ChatSendCatch(req, error) ==
    /\ last' = Event("rejected", req.text, req, [kind |-> "reject", error |-> error],
                     Toast("Error", <<"Failed to apply your edit.">>, "destructive"))
    /\ UNCHANGED <<chatHistory, isGenerating, status, formConfig, generatedConfig,
                   editedConfig, showEditor>>

\* onKeyDown of the chat textarea, rendered while showEditor
ChatKeyDown(key, shiftKey) ==
    /\ variant = "mid"
    /\ showEditor
    /\ CanIssue
    /\ ComponentEvent
    /\ IF SubmitKey(key, shiftKey)
       THEN /\ fx' = KeyFx(key, shiftKey, TRUE)
            /\ handleChatSend("onKeyDown", chatInput)
            /\ chatInput' = <<>>
       ELSE /\ fx' = KeyFx(key, shiftKey, FALSE)
            /\ last' = Event("keydown", chatInput, NoReq, NoRes, NoToast)
            /\ UNCHANGED <<chatInput, chatHistory, pending, nCalls>>
    /\ UNCHANGED <<variant, prompt, isGenerating, status, formConfig,
                   generatedConfig, editedConfig, showEditor>>

\* onClick of the chat Send button, rendered while showEditor, never disabled
ClickChatSend ==
    /\ variant = "mid"
    /\ showEditor
    /\ CanIssue
    /\ ComponentEvent
    /\ fx' = NoFx
    /\ handleChatSend("handleChatSend", chatInput)
    /\ chatInput' = <<>>
    /\ UNCHANGED <<variant, prompt, isGenerating, status, formConfig,
                   generatedConfig, editedConfig, showEditor>>

\* onChange of the chat textarea
TypeChatInput(t) ==
    /\ variant = "mid"
    /\ showEditor
    /\ ComponentEvent
    /\ fx' = NoFx
    /\ chatInput' = t
    /\ last' = Event("setChatInput", t, NoReq, NoRes, NoToast)
    /\ UNCHANGED <<variant, prompt, chatHistory, isGenerating, status, formConfig,
                   generatedConfig, editedConfig, showEditor, pending, nCalls>>

\* Faulty variant: Apply Changes commits the generated configuration, not
\* the edited one.
ClickApplyGenerated ==
    /\ variant = "mid"
    /\ showEditor
    /\ ComponentEvent
    /\ fx' = NoFx
    /\ IF editedConfig # Absent
       THEN /\ SetFormConfig(generatedConfig)
            /\ showEditor' = FALSE
            /\ last' = Event("apply", <<>>, NoReq, NoRes,
                             Toast("Applied edits", <<"Form JSON updated">>, "default"))
       ELSE /\ last' = Event("apply", <<>>, NoReq, NoRes, NoToast)
            /\ UNCHANGED <<formConfig, showEditor>>
    /\ UNCHANGED <<variant, prompt, chatInput, chatHistory, isGenerating, status,
                   generatedConfig, editedConfig, pending, nCalls>>

\* onClick of Apply Changes to Form
ClickApply ==
    /\ variant = "mid"
    /\ showEditor
    /\ ComponentEvent
    /\ fx' = NoFx
    /\ IF editedConfig # Absent
       THEN /\ SetFormConfig(editedConfig)
            /\ showEditor' = FALSE
            /\ last' = Event("apply", <<>>, NoReq, NoRes,
                             Toast("Applied edits", <<"Form JSON updated">>, "default"))
       ELSE /\ last' = Event("apply", <<>>, NoReq, NoRes, NoToast)
            /\ UNCHANGED <<formConfig, showEditor>>
    /\ UNCHANGED <<variant, prompt, chatInput, chatHistory, isGenerating, status,
                   generatedConfig, editedConfig, pending, nCalls>>

----------------------------------------------------------------------------
(* The gateway answers one of the awaited calls *)

RemoveAt(s, i) == SubSeq(s, 1, i - 1) \o SubSeq(s, i + 1, Len(s))

\* The continuation of the handler that awaits req, on a resolved call.
Resolved(req, data) ==
    CASE req.handler = "handleInitialFormGeneration" ->
            InitialFormGenerationResolved(req, data)
      [] req.handler = "handleJsonEdit" -> JsonEditResolved(req, data)
      [] req.handler = "handleChatSend" -> ChatSendResolved(req, data)
      [] req.handler = "handleGenerateForm" /\ variant = "old" ->
            OldGenerateResolved(req, data)
      [] req.handler = "handleGenerateForm" /\ variant = "mid" ->
            MidGenerateResolved(req, data)

\* The continuation of the handler that awaits req, on a rejected call.
Rejected(req, error) ==
    LET res == [kind |-> "reject", error |-> error]
    IN  CASE req.handler \in {"handleInitialFormGeneration", "handleJsonEdit"} ->
                SendCatch("rejected", req.text, req, res, error)
          [] req.handler = "handleChatSend" -> ChatSendCatch(req, error)
          [] req.handler = "handleGenerateForm" ->
                GenerateCatch("rejected", req, res, error)

Resolve(i, data) ==
    /\ i \in DOMAIN pending
    /\ ComponentEvent
    /\ fx' = NoFx
    /\ pending' = RemoveAt(pending, i)
    /\ Resolved(pending[i], data)
    /\ UNCHANGED <<variant, prompt, chatInput, nCalls>>

Reject(i, error) ==
    /\ i \in DOMAIN pending
    /\ ComponentEvent
    /\ fx' = NoFx
    /\ pending' = RemoveAt(pending, i)
    /\ Rejected(pending[i], error)
    /\ UNCHANGED <<variant, prompt, chatInput, nCalls>>

----------------------------------------------------------------------------

(* Theme manager: applyTheme, the startup effect, the theme menu *)

\* The entries of the theme menu.
ThemeNames == {"modern", "classic", "elegant", "minimalist", "vibrant"}

\* A name the persisted key can hold that the menu does not offer.
UnknownTheme == "retro"

\* The class `theme-${themeName}`.
ThemeClass(themeName) == <<"theme-", themeName>>

DarkClass == <<"dark">>

\* The classes applyTheme removes from the root element.
RemovedClasses == {ThemeClass(t) : t \in ThemeNames} \cup {DarkClass}

fontMap ==
    [t \in ThemeNames |->
        CASE t = "modern" -> "'Poppins', sans-serif"
          [] t = "classic" -> "'Merriweather', serif"
          [] t = "elegant" -> "'Playfair Display', serif"
          [] t = "minimalist" -> "'Inter', sans-serif"
          [] t = "vibrant" -> "'Montserrat', sans-serif"]

\* fontMap[themeName] as setProperty stores it: a missing key is undefined,
\* which the string argument of setProperty turns into the text "undefined".
FontValue(themeName) ==
    IF themeName \in DOMAIN fontMap THEN fontMap[themeName] ELSE "undefined"

\* localStorage as the set of values under "theme-preset": none or one.
NoStored == {}

Stored(value) == {value}

\* localStorage.getItem("theme-preset"), read where an entry exists.
GetItem == CHOOSE value \in localStorage : TRUE

\* --font-primary is not set on the root element.
NoFont == "unset"

\* What localStorage["theme-preset"] can hold when the page loads.
StoredValues ==
    {NoStored} \cup {Stored(value) : value \in {""} \cup ThemeNames \cup {UnknownTheme}}

\* The classes of the root element of a freshly loaded document.
FreshRootClasses == {{}, {DarkClass}}

ThemeToast(themeName) ==
    Toast("Theme Changed", <<"Applied ", themeName, " theme and font">>, "default")

\* Faulty variant: the theme is not persisted.
applyThemeNoPersist(op, themeName) ==
    /\ rootClasses' = (rootClasses \ RemovedClasses) \cup {ThemeClass(themeName)}
    /\ localStorage' = localStorage
    /\ fontPrimary' = FontValue(themeName)
    /\ last' = Event(op, <<themeName>>, NoReq, NoRes, ThemeToast(themeName))

applyTheme(op, themeName) ==
    /\ rootClasses' = (rootClasses \ RemovedClasses) \cup {ThemeClass(themeName)}
    /\ localStorage' = Stored(themeName)
    /\ fontPrimary' = FontValue(themeName)
    /\ last' = Event(op, <<themeName>>, NoReq, NoRes, ThemeToast(themeName))

\* localStorage.getItem("theme-preset") || "modern"
SavedTheme ==
    IF localStorage = NoStored \/ GetItem = "" THEN "modern" ELSE GetItem

\* The startup effect, run once when the component has mounted.
Mount ==
    /\ ~mounted
    /\ mounted' = TRUE
    /\ applyTheme("useEffect", SavedTheme)
    /\ fx' = NoFx
    /\ UNCHANGED <<variant, prompt, chatInput, chatHistory, isGenerating, status,
                   formConfig, generatedConfig, editedConfig, showEditor,
                   pending, nCalls, callCap>>

\* A click on an entry of the theme menu.
SelectTheme(t) ==
    /\ mounted
    /\ applyTheme("applyTheme", t)
    /\ fx' = NoFx
    /\ UNCHANGED <<variant, prompt, chatInput, chatHistory, isGenerating, status,
                   formConfig, generatedConfig, editedConfig, showEditor,
                   pending, nCalls, mounted, callCap>>

----------------------------------------------------------------------------
(* Export: handleCopyJson, handleDownloadJson *)

\* JSON.stringify(config, null, 2)
Stringify(config) == [json |-> config, indent |-> 2]

\* A Copy or Download button is on the page and not disabled.
ExportDisabled ==
    IF variant = "uni"
    THEN ~\E i \in DOMAIN chatHistory :
            chatHistory[i].role = "assistant" /\ chatHistory[i].jsonData # Absent
    ELSE formConfig = Absent

CopiedToast == Toast("JSON copied", <<"Form configuration copied to clipboard">>, "default")

CopyFailedToast == Toast("Error", <<"Failed to copy to clipboard">>, "destructive")

DownloadedToast ==
    Toast("JSON downloaded", <<"Form configuration downloaded as JSON file">>, "default")

\* Faulty variant: the copy takes the working configuration where one exists.
handleCopyJsonWorking(ok) ==
    IF formConfig = Absent
    THEN /\ fx' = NoFx
         /\ last' = Event("handleCopyJson", <<>>, NoReq, NoRes, NoToast)
    ELSE /\ fx' = [kind |-> "clipboard", ok |-> ok,
                   text |-> Stringify(IF editedConfig # Absent THEN editedConfig
                                      ELSE formConfig)]
         /\ last' = Event("handleCopyJson", <<>>, NoReq, NoRes,
                          IF ok THEN CopiedToast ELSE CopyFailedToast)

\* handleCopyJson; ok is whether clipboard.writeText fulfils. The settlement
\* of its promise only raises a toast and is taken with the click.
handleCopyJson(ok) ==
    IF formConfig = Absent
    THEN /\ fx' = NoFx
         /\ last' = Event("handleCopyJson", <<>>, NoReq, NoRes, NoToast)
    ELSE /\ fx' = [kind |-> "clipboard", text |-> Stringify(formConfig), ok |-> ok]
         /\ last' = Event("handleCopyJson", <<>>, NoReq, NoRes,
                          IF ok THEN CopiedToast ELSE CopyFailedToast)

handleDownloadJson ==
    IF formConfig = Absent
    THEN /\ fx' = NoFx
         /\ last' = Event("handleDownloadJson", <<>>, NoReq, NoRes, NoToast)
    ELSE /\ fx' = [kind |-> "download", filename |-> "form-config.json",
                   text |-> Stringify(formConfig)]
         /\ last' = Event("handleDownloadJson", <<>>, NoReq, NoRes, DownloadedToast)

\* Faulty variant: a copy ends the busy state.
ClickCopyClearsBusy(ok) ==
    /\ ~ExportDisabled
    /\ ComponentEvent
    /\ handleCopyJson(ok)
    /\ isGenerating' = FALSE
    /\ UNCHANGED <<variant, prompt, chatInput, chatHistory, status,
                   formConfig, generatedConfig, editedConfig, showEditor,
                   pending, nCalls>>

ClickCopy(ok) ==
    /\ ~ExportDisabled
    /\ ComponentEvent
    /\ handleCopyJson(ok)
    /\ UNCHANGED <<variant, prompt, chatInput, chatHistory, isGenerating, status,
                   formConfig, generatedConfig, editedConfig, showEditor,
                   pending, nCalls>>

ClickDownload ==
    /\ ~ExportDisabled
    /\ ComponentEvent
    /\ handleDownloadJson
    /\ UNCHANGED <<variant, prompt, chatInput, chatHistory, isGenerating, status,
                   formConfig, generatedConfig, editedConfig, showEditor,
                   pending, nCalls>>

\* resetForm of the shared form context, called by another of its consumers.
ContextReset ==
    /\ formConfig # Absent
    /\ ComponentEvent
    /\ formConfig' = Absent
    /\ fx' = NoFx
    /\ last' = Event("resetForm", <<>>, NoReq, NoRes, NoToast)
    /\ UNCHANGED <<variant, prompt, chatInput, chatHistory, isGenerating, status,
                   generatedConfig, editedConfig, showEditor, pending, nCalls>>

----------------------------------------------------------------------------
(* The component *)

\* The state of a component that has rendered and not yet run its effects.
Rendered ==
    /\ prompt = <<>>
    /\ chatInput = <<>>
    /\ chatHistory = IF variant = "uni" THEN <<WelcomeMsg>> ELSE <<>>
    /\ isGenerating = FALSE
    /\ status = StatusReady
    /\ formConfig = Absent
    /\ generatedConfig = Absent
    /\ editedConfig = Absent
    /\ showEditor = FALSE
    /\ pending = <<>>
    /\ nCalls = 0
    /\ last = Event("init", <<>>, NoReq, NoRes, NoToast)
    /\ mounted = FALSE
    /\ fontPrimary = NoFont
    /\ fx = NoFx

\* A first visit: nothing is persisted.
Init ==
    /\ variant \in Variants
    /\ Rendered
    /\ rootClasses = {}
    /\ localStorage = NoStored
    /\ callCap = MaxCalls

\* The page is loaded again: the document and the component start afresh,
\* what the old page awaited is abandoned, local storage is kept.
Reload ==
    /\ mounted
    /\ mounted' = FALSE
    /\ prompt' = <<>>
    /\ chatInput' = <<>>
    /\ chatHistory' = IF variant = "uni" THEN <<WelcomeMsg>> ELSE <<>>
    /\ isGenerating' = FALSE
    /\ status' = StatusReady
    /\ formConfig' = Absent
    /\ generatedConfig' = Absent
    /\ editedConfig' = Absent
    /\ showEditor' = FALSE
    /\ pending' = <<>>
    /\ rootClasses' \in FreshRootClasses
    /\ fontPrimary' = NoFont
    /\ fx' = NoFx
    /\ last' = Event("reload", <<>>, NoReq, NoRes, NoToast)
    /\ UNCHANGED <<variant, nCalls, localStorage, callCap>>

\* The events of the chat state machine, the user typing texts of the set.
ChatNext(texts) ==
    \/ Mount
    \/ \E t \in texts : TypePrompt(t)
    \/ \E key \in Keys, shiftKey \in BOOLEAN : KeyDown(key, shiftKey)
    \/ ClickSend
    \/ ClickGenerate
    \/ \E t \in texts : TypeChatInput(t)
    \/ \E key \in Keys, shiftKey \in BOOLEAN : ChatKeyDown(key, shiftKey)
    \/ ClickChatSend
    \/ ClickApply
    \/ \E i \in 1..callCap, data \in ResponseBodies : Resolve(i, data)
    \/ \E i \in 1..callCap, error \in Thrown : Reject(i, error)

Next == ChatNext(Texts)

\* The chat state machine on a first visit.
Spec == Init /\ [][Next]_vars

\* An awaited call completes, either way.
Complete ==
    \E i \in 1..callCap :
        \/ \E data \in ResponseBodies : Resolve(i, data)
        \/ \E error \in Thrown : Reject(i, error)

\* The behaviours in which the gateway answers every call it is sent.
FairSpec == Spec /\ WF_vars(Complete)

\* The chat state machine over longer conversations.
LongInit ==
    /\ variant \in Variants
    /\ Rendered
    /\ rootClasses = {}
    /\ localStorage = NoStored
    /\ callCap = MaxLongCalls

\* What the user types there: nothing or one word.
PlainTexts == {<<>>, <<"x">>}

LongNext == ChatNext(PlainTexts)

LongSpec == LongInit /\ [][LongNext]_vars

\* The chat state machine together with the theme menu and the export buttons.
UIInit ==
    /\ variant \in Variants
    /\ Rendered
    /\ rootClasses = {}
    /\ localStorage = NoStored
    /\ callCap = MaxUiCalls

UINext ==
    \/ ChatNext(PlainTexts)
    \/ \E t \in ThemeNames : SelectTheme(t)
    \/ \E ok \in BOOLEAN : ClickCopy(ok)
    \/ ClickDownload
    \/ ContextReset

UISpec == UIInit /\ [][UINext]_vars

\* The theme manager alone, over every persisted value and page reloads.
ThemeInit ==
    /\ variant \in Variants
    /\ Rendered
    /\ rootClasses \in FreshRootClasses
    /\ localStorage \in StoredValues
    /\ callCap = 0

ThemeNext ==
    \/ Mount
    \/ \E t \in ThemeNames : SelectTheme(t)
    \/ Reload

ThemeSpec == ThemeInit /\ [][ThemeNext]_vars

----------------------------------------------------------------------------
(* Vocabulary of the properties, stated apart from the handlers' own tests *)

WhitespaceOnly(t) == \A i \in DOMAIN t : t[i] = " "

Placeholders(h) == {i \in DOMAIN h : h[i].isGenerating}

SendOps == {"handleSendMessage", "handleKeyDown"}

SubmitOps == SendOps \cup {"handleGenerateForm", "handleChatSend", "onKeyDown"}

\* The step ran handleSendMessage of the unified variant on a non-blank text.
SendStep ==
    /\ variant = "uni"
    /\ last'.op \in SendOps
    /\ ~WhitespaceOnly(last'.text)

\* The step handled the completion of an awaited call.
CompletionStep == Len(pending') < Len(pending)

----------------------------------------------------------------------------
\* C1: in the unified variant a send of non-blank text issues exactly one
\* gateway call, chosen by the configuration committed at submission: absent
\* => /api/prompt with the raw text; present => /api/edit-json with that
\* configuration and the text.  No other call is issued by the submission.
C1_RoutedByCommittedConfig ==
    [][SendStep =>
         /\ nCalls' = nCalls + 1
         /\ Len(pending') = Len(pending) + 1
         /\ SubSeq(pending', 1, Len(pending)) = pending
         /\ pending'[Len(pending')].call =
               IF formConfig = Absent
               THEN [url |-> "/api/prompt", body |-> [prompt |-> last'.text]]
               ELSE [url |-> "/api/edit-json",
                     body |-> [json |-> formConfig, instruction |-> last'.text]]
      ]_vars

\* An edit was routed for a padded text while a configuration was committed.
C1_Witness ==
    /\ variant = "uni"
    /\ last.op \in SendOps
    /\ last.text = <<" ", "x", " ">>
    /\ last.req.handler = "handleJsonEdit"
    /\ last.req.call.url = "/api/edit-json"

----------------------------------------------------------------------------
\* C2: in every variant a submission whose text is empty or whitespace-only
\* appends no message and calls no gateway, and leaves the committed
\* configuration, the working configuration and the busy flag unchanged.
C2_BlankSubmissionIgnored ==
    [][(last'.op \in SubmitOps /\ WhitespaceOnly(last'.text)) =>
         UNCHANGED <<chatHistory, pending, nCalls, formConfig, editedConfig,
                     isGenerating>>
      ]_vars

\* Enter was pressed on a whitespace-only prompt.
C2_Witness ==
    /\ variant = "uni"
    /\ last.op = "handleKeyDown"
    /\ last.text = <<" ">>
    /\ formConfig # Absent

----------------------------------------------------------------------------
\* C3: in the unified variant the transcript holds at most one isGenerating
\* placeholder, the placeholder is the last element, and a transcript with a
\* placeholder changes only by losing it before anything is appended.
C3_PlaceholderState ==
    variant = "uni" =>
        /\ Cardinality(Placeholders(chatHistory)) <= 1
        /\ \A i \in Placeholders(chatHistory) : i = Len(chatHistory)

C3_PlaceholderStep ==
    (variant = "uni" /\ Placeholders(chatHistory) # {} /\ chatHistory' # chatHistory) =>
        /\ Placeholders(chatHistory') = {}
        /\ Len(chatHistory') >= Len(chatHistory) - 1
        /\ SubSeq(chatHistory', 1, Len(chatHistory) - 1) =
              SubSeq(chatHistory, 1, Len(chatHistory) - 1)

C3_SinglePlaceholderLast == []C3_PlaceholderState /\ [][C3_PlaceholderStep]_vars

\* The placeholder of a second submission is in the transcript.
C3_Witness ==
    /\ variant = "uni"
    /\ Placeholders(chatHistory) # {}
    /\ Len(chatHistory) >= 5

----------------------------------------------------------------------------
\* C4: in the unified variant at most one generate/edit request is
\* outstanding, and while the busy flag is set no further gateway call is
\* issued.
C4_OneOutstanding ==
    /\ [](variant = "uni" => Len(pending) <= 1 /\ (pending # <<>> => isGenerating))
    /\ [][(variant = "uni" /\ isGenerating) => nCalls' = nCalls]_vars

\* The second submission of a behaviour is outstanding, alone.
C4_Witness ==
    /\ variant = "uni"
    /\ isGenerating
    /\ Len(pending) = 1
    /\ nCalls = 2

----------------------------------------------------------------------------
\* C5: in the unified variant a generate submission creates exactly one
\* placeholder, handling a completion leaves none, and after a successful
\* generate the transcript is the transcript before the submission, then the
\* user message, then one assistant message carrying the returned
\* configuration.
C5_AfterGenerateSuccess ==
    (/\ variant = "uni"
     /\ last.op = "resolved"
     /\ last.req.handler = "handleInitialFormGeneration"
     /\ last.res.data.config # Absent) =>
        LET h0 == last.req.chatHistory0
        IN  /\ Len(chatHistory) = Len(h0) + 2
            /\ SubSeq(chatHistory, 1, Len(h0)) = h0
            /\ chatHistory[Len(h0) + 1] =
                  [role |-> "user", content |-> last.req.text,
                   isGenerating |-> FALSE, jsonData |-> Absent]
            /\ chatHistory[Len(h0) + 2].role = "assistant"
            /\ chatHistory[Len(h0) + 2].jsonData = last.res.data.config
            /\ Placeholders(chatHistory) = {}

C5_PlaceholderLifecycle ==
    /\ SendStep =>
          /\ Cardinality(Placeholders(chatHistory')) =
                Cardinality(Placeholders(chatHistory)) + 1
          /\ Len(chatHistory') = Len(chatHistory) + 2
    /\ (variant = "uni" /\ CompletionStep) => Placeholders(chatHistory') = {}

C5_GenerateSuccessTranscript ==
    []C5_AfterGenerateSuccess /\ [][C5_PlaceholderLifecycle]_vars

\* A generate succeeded after an earlier generate had failed.
C5_Witness ==
    /\ variant = "uni"
    /\ last.op = "resolved"
    /\ last.req.handler = "handleInitialFormGeneration"
    /\ last.res.data.config = "c2"
    /\ Len(chatHistory) >= 5

----------------------------------------------------------------------------
\* C6: in the unified variant, after a successful edit the committed
\* configuration is exactly the configuration the server returned, and the
\* request carried the configuration committed when it was submitted.
C6_EditSuccessReplacesWhole ==
    (/\ variant = "uni"
     /\ last.op = "resolved"
     /\ last.req.handler = "handleJsonEdit"
     /\ last.res.data.config # Absent) =>
        /\ formConfig = last.res.data.config
        /\ last.req.formConfig0 # Absent
        /\ last.req.call = [url |-> "/api/edit-json",
                            body |-> [json |-> last.req.formConfig0,
                                      instruction |-> last.req.text]]

\* An edit of c1 succeeded with c2.
C6_Witness ==
    /\ variant = "uni"
    /\ last.op = "resolved"
    /\ last.req.handler = "handleJsonEdit"
    /\ last.req.formConfig0 = "c1"
    /\ last.res.data.config = "c2"

----------------------------------------------------------------------------
\* The last event handled a failed call: a rejection, or a response without
\* config.
FailureHandled ==
    \/ last.op = "rejected"
    \/ last.op = "resolved" /\ last.res.data.config = Absent

\* C7 as stated: in every variant, after a failed call is handled the
\* committed configuration equals the one committed when the call was issued.
C7_CommittedAsBeforeCall ==
    FailureHandled => formConfig = last.req.formConfig0

\* C7 as amended: handling a failed call never changes the committed
\* configuration; in the old and unified variants it therefore equals the
\* configuration committed when the call was issued (in the intermediate
\* variant Apply Changes may commit the working configuration meanwhile).
C7_FailureKeepsCommitted ==
    /\ []((FailureHandled /\ variant # "mid") => formConfig = last.req.formConfig0)
    /\ [][(CompletionStep /\ FailureHandled') => formConfig' = formConfig]_vars

\* The edit of a committed configuration failed.
C7_Witness ==
    /\ variant = "uni"
    /\ FailureHandled
    /\ last.req.handler = "handleJsonEdit"
    /\ formConfig = "c1"

----------------------------------------------------------------------------
ConfirmationTexts ==
    {GeneratedMsg(Absent).content, UpdatedMsg(Absent).content,
     InitialJsonMsg.content, DoneMsg.content}

\* C8: in every variant and for both endpoints a response without config is
\* a failure: neither configuration is changed, no confirmation message is
\* appended, and a failure is reported to the user.
C8_NoConfigIsFailure ==
    [][(/\ CompletionStep
        /\ last'.res.kind = "resolve"
        /\ last'.res.data.config = Absent) =>
         /\ formConfig' = formConfig
         /\ editedConfig' = editedConfig
         /\ ~(/\ chatHistory' # chatHistory
              /\ chatHistory' # <<>>
              /\ chatHistory'[Len(chatHistory')].content \in ConfirmationTexts)
         /\ last'.toast # NoToast
         /\ last'.toast.variant = "destructive"
      ]_vars

----------------------------------------------------------------------------
\* C9: in the unified variant, when the call of a submission fails the
\* placeholder is removed, exactly one assistant message is appended whose
\* text is the failure's description (or a generic fallback), and a
\* notification carrying the same description is raised.
C9_FailureMessageMatchesToast ==
    (variant = "uni" /\ FailureHandled) =>
        LET h0 == last.req.chatHistory0
        IN  /\ Placeholders(chatHistory) = {}
            /\ Len(chatHistory) = Len(h0) + 2
            /\ SubSeq(chatHistory, 1, Len(h0)) = h0
            /\ chatHistory[Len(h0) + 2].role = "assistant"
            /\ last.toast # NoToast
            /\ last.toast.variant = "destructive"
            /\ chatHistory[Len(h0) + 2].content = <<"Error: ">> \o last.toast.description
            /\ (last.res.kind = "reject" /\ last.res.error.isError) =>
                  last.toast.description = last.res.error.message

----------------------------------------------------------------------------
\* A call whose handler set the busy flag is outstanding.
BusyOutstanding ==
    \E i \in DOMAIN pending : pending[i].handler # "handleChatSend"

C10_BusyOnlyWhileOutstanding ==
    /\ isGenerating <=> BusyOutstanding
    /\ (last.op \in {"resolved", "rejected"} /\ last.req.handler # "handleChatSend") =>
          ~isGenerating
    /\ ~isGenerating =>
          /\ ~InputDisabled
          /\ SendDisabled <=> WhitespaceOnly(prompt)
          /\ GenerateDisabled <=> WhitespaceOnly(prompt)

\* C10: in every variant the busy flag is set only while a request that set
\* it is outstanding; handling the completion of that request (success,
\* response without config, or failure) clears it and re-enables the input
\* and the send control; and when the gateway answers every call, a set busy
\* flag is eventually cleared.
C10_ReturnsToIdle ==
    []C10_BusyOnlyWhileOutstanding /\ (isGenerating ~> ~isGenerating)

\* A generate of the intermediate variant failed and the panel is idle again.
C10_Witness ==
    /\ variant = "mid"
    /\ last.op = "rejected"
    /\ last.req.handler = "handleGenerateForm"
    /\ ~isGenerating
    /\ ~GenerateDisabled

----------------------------------------------------------------------------
ChatSendOps == {"handleChatSend", "onKeyDown"}

\* The step submitted a non-blank edit while no configuration exists: a chat
\* send of the intermediate variant without a working configuration, or a
\* call of handleJsonEdit of the unified variant without a committed one.
EditWithoutConfigStep ==
    \/ /\ variant = "mid"
       /\ last'.op \in ChatSendOps
       /\ ~WhitespaceOnly(last'.text)
       /\ editedConfig = Absent
    \/ /\ variant = "uni"
       /\ last'.op \in SendOps
       /\ last'.req # NoReq
       /\ last'.req.handler = "handleJsonEdit"
       /\ formConfig = Absent

\* C11: in every variant that offers the edit operation, invoking edit when
\* no configuration exists makes no gateway call and is reported to the user
\* as a failure (a destructive notification or a message in the transcript),
\* not passed over in silence.
C11_EditWithoutConfigReported ==
    [][EditWithoutConfigStep =>
         /\ nCalls' = nCalls
         /\ pending' = pending
         /\ \/ /\ last'.toast # NoToast
               /\ last'.toast.variant = "destructive"
            \/ /\ Len(chatHistory') > Len(chatHistory)
               /\ chatHistory'[Len(chatHistory')].role = "assistant"
      ]_vars

----------------------------------------------------------------------------
\* The step handled a response that carries a configuration.
SuccessStep ==
    /\ CompletionStep
    /\ last'.res.kind = "resolve"
    /\ last'.res.data.config # Absent

\* C12 as stated: in every variant, once a successful generate or edit
\* response has been handled the shared form context holds the returned
\* configuration.
C12_ContextHoldsReturned ==
    (last.op = "resolved" /\ last.res.data.config # Absent) =>
        formConfig = last.res.data.config

\* C12 as amended: in the old and unified variants handling a successful
\* response puts exactly the returned configuration in the shared form
\* context; in the intermediate variant it puts it in the working
\* configuration and leaves the shared context as it was, and the shared
\* context takes the working configuration when Apply Changes is pressed.
C12_SuccessCommitsOrStages ==
    [][/\ SuccessStep =>
            IF variant = "mid"
            THEN /\ editedConfig' = last'.res.data.config
                 /\ formConfig' = formConfig
            ELSE formConfig' = last'.res.data.config
       /\ (variant = "mid" /\ last'.op = "apply" /\ editedConfig # Absent) =>
            formConfig' = editedConfig
      ]_vars

\* The intermediate variant has handled an edit that returned c2 after c1 was
\* generated and applied: the shared context still holds c1.
C12_Witness ==
    /\ variant = "mid"
    /\ last.op = "resolved"
    /\ last.req.handler = "handleChatSend"
    /\ last.res.data.config = "c2"
    /\ editedConfig = "c2"
    /\ formConfig = "c1"

----------------------------------------------------------------------------
\* Theme t is the active one: its marker is the only one of the five on the
\* root element, and the font variable holds its font.
ActiveTheme(t) ==
    /\ rootClasses \cap {ThemeClass(u) : u \in ThemeNames} = {ThemeClass(t)}
    /\ fontPrimary = fontMap[t]

\* C13: applyTheme(t) persists t, a reload keeps what is persisted, and the
\* startup effect of the reloaded page makes the persisted theme of the five
\* the active one without any user action; when nothing is persisted it makes
\* 'modern' the active one.
C13_PersistedThemeRestored ==
    [][/\ last'.op \in {"applyTheme", "useEffect"} =>
            localStorage' = {last'.text[1]}
       /\ last'.op = "reload" => (localStorage' = localStorage /\ ~mounted')
       /\ last'.op = "useEffect" =>
            /\ \A t \in ThemeNames : localStorage = {t} => ActiveTheme(t)'
            /\ localStorage = {} => ActiveTheme("modern")'
      ]_vars

\* The startup effect has made 'classic' active again from the persisted key.
C13_Witness ==
    /\ mounted
    /\ last.op = "useEffect"
    /\ last.text = <<"classic">>
    /\ ActiveTheme("classic")
    /\ localStorage = {"classic"}

----------------------------------------------------------------------------
\* C14: once the startup effect has run, and after any theme selections, the
\* root element carries exactly one of the five theme markers and no dark
\* marker, the font variable holds the font of that theme, and the persisted
\* name is that theme.
C14_ExactlyOneThemeActive ==
    mounted =>
        \E t \in ThemeNames :
            /\ ActiveTheme(t)
            /\ DarkClass \notin rootClasses
            /\ localStorage = {t}

----------------------------------------------------------------------------
ExportOps == {"handleCopyJson", "handleDownloadJson"}

\* C15: in every variant a copy or download invoked while no configuration
\* is committed does nothing (no serialization, no clipboard write, no file
\* download, no notification), and one invoked while a configuration is
\* committed serializes exactly the committed configuration, to the
\* clipboard or to the file form-config.json.
C15_ExportsCommittedOrNothing ==
    [][last'.op \in ExportOps =>
         IF formConfig = Absent
         THEN /\ fx'.kind = "none"
              /\ last'.toast = NoToast
         ELSE /\ fx'.kind = IF last'.op = "handleCopyJson" THEN "clipboard"
                            ELSE "download"
              /\ fx'.text = [json |-> formConfig, indent |-> 2]
              /\ last'.op = "handleDownloadJson" => fx'.filename = "form-config.json"
              /\ last'.toast # NoToast
      ]_vars

\* The intermediate variant copied while the working configuration (c2)
\* differs from the committed one (c1): c1 went to the clipboard.
C15_Witness ==
    /\ variant = "mid"
    /\ last.op = "handleCopyJson"
    /\ formConfig = "c1"
    /\ editedConfig = "c2"
    /\ fx.kind = "clipboard"
    /\ fx.text.json = "c1"

----------------------------------------------------------------------------
KeyOps == {"handleKeyDown", "onKeyDown"}

\* C16: on the chat inputs, Enter without Shift suppresses the default
\* newline and submits the current input text (which issues a call when the
\* text is not blank and, in the intermediate variant, a working
\* configuration exists); Enter with Shift, and every other key, neither
\* suppresses the default nor submits.
C16_EnterSubmitsShiftEnterDoesNot ==
    [][fx'.kind = "key" =>
         LET input == IF variant = "uni" THEN prompt ELSE chatInput
         IN  IF fx'.key = "Enter" /\ ~fx'.shiftKey
             THEN /\ fx'.defaultPrevented
                  /\ last'.op \in KeyOps
                  /\ last'.text = input
                  /\ (/\ ~WhitespaceOnly(input)
                      /\ variant = "mid" => editedConfig # Absent) =>
                        /\ nCalls' = nCalls + 1
                        /\ Len(pending') = Len(pending) + 1
                        /\ last'.req.text = input
             ELSE /\ ~fx'.defaultPrevented
                  /\ last'.op \notin SubmitOps
                  /\ UNCHANGED <<prompt, chatInput, chatHistory, pending, nCalls,
                                 isGenerating>>
      ]_vars

\* Enter without Shift in the chat box of the intermediate variant submitted
\* the text typed there.
C16_Witness ==
    /\ variant = "mid"
    /\ fx = [kind |-> "key", key |-> "Enter", shiftKey |-> FALSE,
             defaultPrevented |-> TRUE]
    /\ last.op = "onKeyDown"
    /\ last.req # NoReq
    /\ last.req.text = <<" ", "x", " ">>
    /\ chatInput = <<>>

----------------------------------------------------------------------------
\* C17: in the intermediate variant a chat edit with non-blank text and a
\* working configuration is sent whatever is outstanding (nothing disables
\* the chat box or its Send button and the handler tests no busy flag), so
\* two gateway requests can be in flight at once.
C17_ChatEditNotBlockedByOutstanding ==
    [][(/\ variant = "mid"
        /\ last'.op \in ChatSendOps
        /\ ~WhitespaceOnly(last'.text)
        /\ editedConfig # Absent) =>
         /\ Len(pending') = Len(pending) + 1
         /\ pending'[Len(pending')].handler = "handleChatSend"
         /\ SubSeq(pending', 1, Len(pending)) = pending
      ]_vars

\* A chat edit was sent while a generate request was outstanding: the two
\* are in flight together.
C17_Witness ==
    /\ variant = "mid"
    /\ last.op \in ChatSendOps
    /\ Len(pending) = 2
    /\ pending[1].handler = "handleGenerateForm"
    /\ pending[2].handler = "handleChatSend"
    /\ isGenerating

----------------------------------------------------------------------------
NonPlaceholders(h) == SelectSeq(h, LAMBDA m : ~m.isGenerating)

\* The step changes the transcript only by removing placeholders and
\* appending at the end.
AppendOnlyStep ==
    \E k \in 0..Len(chatHistory') :
        SubSeq(chatHistory', 1, k) \in {chatHistory, NonPlaceholders(chatHistory)}

\* The step handled a successful generate of the intermediate variant.
MidGenerateSuccessStep ==
    /\ variant = "mid"
    /\ SuccessStep
    /\ last'.req.handler = "handleGenerateForm"

\* C18 as stated: in every variant that keeps a transcript, every transition
\* changes it only by removing placeholders and appending at the end.
C18_TranscriptAppendOnly ==
    [][AppendOnlyStep]_vars

\* C18 as amended: every transition changes the transcript only by removing
\* placeholders and appending at the end, except the handling of a successful
\* generate in the intermediate variant, which replaces the whole transcript
\* by one assistant message.
C18_AppendOnlyButMidGenerate ==
    [][IF MidGenerateSuccessStep
       THEN /\ Len(chatHistory') = 1
            /\ chatHistory'[1].role = "assistant"
       ELSE AppendOnlyStep
      ]_vars

\* A second successful generate of the intermediate variant has dropped the
\* user's message and the reply of an edit made after the first.
C18_Witness ==
    /\ variant = "mid"
    /\ last.op = "resolved"
    /\ last.req.handler = "handleGenerateForm"
    /\ last.res.data.config # Absent
    /\ Len(last.req.chatHistory0) >= 2
    /\ Len(chatHistory) = 1

----------------------------------------------------------------------------
\* C19: in the unified variant, once a successful generate or edit response
\* has been handled the status indicator shows a success value (green, with
\* the success text), not the ready, generating or failed value.
C19_StatusSuccessAfterSuccess ==
    (/\ variant = "uni"
     /\ last.op = "resolved"
     /\ last.res.data.config # Absent) =>
        /\ status.color = "bg-green-500"
        /\ status.text = "Form generated successfully"
        /\ status.text \notin {"Ready", "Generating form...", "Form generation failed"}

\* The unified variant has handled a successful edit.
C19_Witness ==
    /\ variant = "uni"
    /\ last.op = "resolved"
    /\ last.req.handler = "handleJsonEdit"
    /\ last.res.data.config = "c2"
    /\ status.text = "Form generated successfully"

----------------------------------------------------------------------------
SideOps == ExportOps \cup {"applyTheme"}

\* A Copy or Download button can be clicked: not disabled in the old and
\* intermediate variants, shown in a message with JSON in the unified one.
ExportOffered ==
    IF variant = "uni"
    THEN \E i \in DOMAIN chatHistory : chatHistory[i].jsonData # Absent
    ELSE formConfig # Absent

\* C20: a copy, a download or a theme selection never changes the transcript,
\* the committed configuration, the busy flag or the status indicator (nor
\* the inputs, the working configuration or the outstanding calls), whether
\* its side effect succeeds or fails, and all three can be invoked while a
\* request is outstanding.
C20_SideActionsIndependent ==
    /\ [][last'.op \in SideOps =>
            UNCHANGED <<chatHistory, formConfig, isGenerating, status, prompt,
                        chatInput, generatedConfig, editedConfig, showEditor,
                        pending, nCalls>>
         ]_vars
    /\ [](pending # <<>> =>
            /\ \A t \in ThemeNames : ENABLED SelectTheme(t)
            /\ ExportOffered =>
                 /\ \A ok \in BOOLEAN : ENABLED ClickCopy(ok)
                 /\ ENABLED ClickDownload)

\* A copy failed (the clipboard refused) while a request was outstanding.
C20_Witness ==
    /\ last.op = "handleCopyJson"
    /\ fx.kind = "clipboard"
    /\ ~fx.ok
    /\ last.toast.variant = "destructive"
    /\ pending # <<>>
    /\ isGenerating

----------------------------------------------------------------------------
\* C21: in the unified variant, in every state between two events the
\* transcript holds an isGenerating placeholder exactly when the busy flag is
\* set, and the busy flag is set exactly when a generate or edit request is
\* outstanding.
C21_PlaceholderIffBusy ==
    variant = "uni" =>
        /\ (\E i \in DOMAIN chatHistory : chatHistory[i].isGenerating) <=> isGenerating
        /\ isGenerating <=> pending # <<>>
        /\ isGenerating => Len(pending) = 1

\* The unified variant awaits an edit: placeholder shown, busy flag set.
C21_Witness ==
    /\ variant = "uni"
    /\ isGenerating
    /\ Len(pending) = 1
    /\ pending[1].handler = "handleJsonEdit"
    /\ chatHistory[Len(chatHistory)].isGenerating

----------------------------------------------------------------------------
\* The positions of the transcript messages that carry a configuration.
Payloads(h) == {i \in DOMAIN h : h[i].jsonData # Absent}

\* C22: in the unified variant, this component being the only writer of the
\* shared form context, the committed configuration is absent exactly when no
\* transcript message carries a configuration, and otherwise it is the
\* configuration carried by the last message that carries one.
C22_CommittedIsLastPayload ==
    variant = "uni" =>
        IF Payloads(chatHistory) = {}
        THEN formConfig = Absent
        ELSE LET i == CHOOSE i \in Payloads(chatHistory) :
                          \A j \in Payloads(chatHistory) : j <= i
             IN  formConfig = chatHistory[i].jsonData

\* The transcript of the unified variant carries c1 from the generation and
\* then c2 from an edit, and c2 is committed.
C22_Witness ==
    /\ variant = "uni"
    /\ Cardinality(Payloads(chatHistory)) = 2
    /\ chatHistory[Len(chatHistory)].jsonData = "c2"
    /\ \E i \in Payloads(chatHistory) : chatHistory[i].jsonData = "c1"
    /\ formConfig = "c2"

----------------------------------------------------------------------------
\* The step handled the response of a chat edit of the intermediate variant,
\* which replaces the working configuration.
EditReplacesStep ==
    /\ variant = "mid"
    /\ CompletionStep
    /\ last'.req.handler = "handleChatSend"
    /\ last'.res.kind = "resolve"

\* C23: in the intermediate variant, whenever an edit response replaces the
\* working configuration, the request that produced it carried the working
\* configuration that is current at the moment of replacement, so no update
\* of the working configuration is lost.
C23_NoLostUpdate ==
    [][EditReplacesStep => last'.req.editedConfig0 = editedConfig]_vars

----------------------------------------------------------------------------
GenerateHandlers == {"handleInitialFormGeneration", "handleGenerateForm"}

\* C24: in every variant the status indicator shows the generating value
\* only while a generate request is outstanding; once the response to that
\* request has been handled, successfully or not, it shows a succeeded or a
\* failed value.
C24_GeneratingOnlyWhileOutstanding ==
    /\ status.text = "Generating form..." =>
          \E i \in DOMAIN pending : pending[i].handler \in GenerateHandlers
    /\ (last.op \in {"resolved", "rejected"} /\ last.req.handler \in GenerateHandlers) =>
          status.text \in {"Form generated successfully", "Form generation failed"}

----------------------------------------------------------------------------
\* C25: after applyTheme(name) has run, from the theme menu or from the
\* startup effect, the root element carries no theme marker class other than
\* theme-<name>, whatever theme was applied before, a persisted name outside
\* the five included.
C25_OnlyAppliedThemeMarker ==
    [][last'.op \in {"applyTheme", "useEffect"} =>
         \A c \in rootClasses' :
             (Len(c) = 2 /\ c[1] = "theme-") => c[2] = last'.text[1]
      ]_vars

====
